---- MODULE Spec2Model ----
(***************************************************************************)
(* CountrySnap: the round / turn engine of src/App.tsx (React component    *)
(* App), the hint service of src/services/geminiService.ts and the pure    *)
(* helpers they use.  Every event handler, timer callback and promise      *)
(* continuation of the component runs to completion on the single          *)
(* JavaScript thread, so each one is one atomic action here.               *)
(*                                                                         *)
(* Text is a sequence of one-character strings; a nullable value of the    *)
(* code (T | null) is a sequence of length 0 or 1.  The two controlled     *)
(* text fields (userGuess, newPlayerName) are inputs of the handlers that  *)
(* read them.                                                              *)
(***************************************************************************)
EXTENDS Integers, Sequences, FiniteSets, TLC

\* ------------------------------------------------------------------ bounds

\* roster size up to which addPlayer is explored
MaxPlayers == 2
\* number of rounds started (startNewRound calls that schedule a selection)
MaxRounds == 2
\* hints shown in one round
MaxHints == 1
\* players of a roster whose session is ended against a saved leaderboard
MaxEnded == 3
\* mistyped or missing leading characters of a guess
MaxTypos == 4
\* length of the strings levenshteinDistance is run on
MaxLen == 3

\* ------------------------------------------------------------------ text

UpperChars == <<"A","B","C","D","E","F","G","H","I","J","K","L","M",
                "N","O","P","Q","R","S","T","U","V","W","X","Y","Z">>
LowerChars == <<"a","b","c","d","e","f","g","h","i","j","k","l","m",
                "n","o","p","q","r","s","t","u","v","w","x","y","z">>

\* String.prototype.toLowerCase on one character
LowerChar(c) ==
  IF \E i \in DOMAIN UpperChars : UpperChars[i] = c
    THEN LowerChars[CHOOSE i \in DOMAIN UpperChars : UpperChars[i] = c]
    ELSE c

\* String.prototype.toLowerCase
ToLowerCase(s) == [i \in 1..Len(s) |-> LowerChar(s[i])]

RECURSIVE TrimStart(_)
TrimStart(s) == IF s # <<>> /\ Head(s) = " " THEN TrimStart(Tail(s)) ELSE s

RECURSIVE TrimEnd(_)
TrimEnd(s) ==
  IF s # <<>> /\ s[Len(s)] = " " THEN TrimEnd(SubSeq(s, 1, Len(s) - 1)) ELSE s

\* String.prototype.trim
Trim(s) == TrimEnd(TrimStart(s))

\* String.prototype.includes
Includes(s, sub) ==
  \E k \in 0..(Len(s) - Len(sub)) : SubSeq(s, k + 1, k + Len(sub)) = sub

Min(x, y) == IF x <= y THEN x ELSE y
Max(x, y) == IF x >= y THEN x ELSE y

\* ----------------------------------------------------- levenshteinDistance

\* First row of the matrix: matrix[0][j] = j  (as a sequence, column j at j+1)
LevFirstRow(a) == [k \in 1..(Len(a) + 1) |-> k - 1]

\* One cell matrix[i][j] of the inner loop, from the row above (prev) and the
\* cells of the row already filled in (cur)
LevCellWrong(a, b, i, j, prev, cur) ==
  IF b[i] = a[j] THEN prev[j]
  ELSE Min(prev[j] + 1, cur[j] + 1)

LevCell(a, b, i, j, prev, cur) ==
  IF b[i] = a[j] THEN prev[j]
  ELSE Min(prev[j] + 1, Min(cur[j] + 1, prev[j + 1] + 1))

\* Row i of the matrix: matrix[i] = [i], then columns 1..a.length
RECURSIVE LevRow(_, _, _, _, _)
LevRow(a, b, i, prev, cur) ==
  IF Len(cur) = Len(a) + 1 THEN cur
  ELSE LevRow(a, b, i, prev, Append(cur, LevCell(a, b, i, Len(cur), prev, cur)))

\* The outer loop: rows 1..b.length, each begun when the row above (prev, which
\* always has its column 0) is complete
RECURSIVE LevRows(_, _, _, _)
LevRows(a, b, i, prev) ==
  IF i > Len(b) \/ Len(prev) = 0 THEN prev
  ELSE LevRows(a, b, i + 1, LevRow(a, b, i, prev, <<i>>))

levenshteinDistance(a, b) == LevRows(a, b, 1, LevFirstRow(a))[Len(a) + 1]

\* ------------------------------------------------------------- checkMatch

\* The fuzzy-match tolerance for a normalized name of length len
ThresholdWrong(len) == IF len <= 3 THEN 0 ELSE IF len <= 7 THEN 1 ELSE 2
Threshold(len) ==
  IF len <= 3 THEN 0 ELSE IF len <= 7 THEN 1 ELSE IF len <= 12 THEN 2 ELSE 3

\* checkMatch(target) of handleSubmitGuess; target is nullable, guess is the
\* lower-cased, trimmed text of the input field
checkMatchWrong(target, guess) ==
  IF target = <<>> \/ target[1] = <<>> THEN FALSE
  ELSE LET normalizedTarget == ToLowerCase(target[1])
       IN \/ normalizedTarget = guess
          \/ Includes(normalizedTarget, guess)
          \/ levenshteinDistance(normalizedTarget, guess)
               <= Threshold(Len(normalizedTarget))

checkMatch(target, guess) ==
  IF target = <<>> \/ target[1] = <<>> THEN FALSE
  ELSE LET normalizedTarget == ToLowerCase(target[1])
       IN \/ normalizedTarget = guess
          \/ Len(guess) > 3 /\ Includes(normalizedTarget, guess)
          \/ levenshteinDistance(normalizedTarget, guess)
               <= Threshold(Len(normalizedTarget))

\* ------------------------------------------------------------ the catalog

Str_Italy == <<"I","t","a","l","y">>
Str_Italia == <<"I","t","a","l","i","a">>
Str_Chad == <<"C","h","a","d">>
Str_Antarctica == <<"A","n","t","a","r","c","t","i","c","a">>
Str_Atoll == <<"A","t","o","l","l">>

\* What the world.geojson fetch resolves to: name, root id ("" when the
\* feature has none) and the length of geometry.coordinates
WorldGeoJson ==
  << [name |-> Str_Italy, id |-> "ITA", coords |-> 1],
     [name |-> Str_Antarctica, id |-> "ATA", coords |-> 1],
     [name |-> Str_Chad, id |-> "", coords |-> 1],
     [name |-> Str_Atoll, id |-> "ATL", coords |-> 0] >>

\* data.features.filter(...) of the load effect
KeepFeatureWrong(f) == f.name # Str_Antarctica
KeepFeature(f) == f.name # Str_Antarctica /\ f.coords > 0
filteredFeatures(features) == SelectSeq(features, KeepFeature)

\* name.common of the restcountries payload for a feature ("" id: never asked)
CommonName(f) == IF f.id = "ITA" THEN Str_Italia ELSE f.name

\* The ways one country-facts fetch can end
FactsOutcomes == {"ok", "okBare", "empty", "rejected"}

\* ------------------------------------------------------------------ inputs

\* The contents of the guess field (App.userGuess) when the form is submitted
GuessInputs == { <<" ">>, <<"I","t","l","y"," ">>, <<"c","h","a","d">> }
\* The contents of the name field (App.newPlayerName) when the form is submitted
NameInputs == { <<" ">>, <<" ","A">> }

\* ------------------------------------------------------------------- state

\* currentPlayerIndex after (prev + 1) % 0 or arithmetic on NaN
NaN == -1

PaletteSize == 6
InitialLives == 3
ScoreStep == 5
LeaderboardCap == 50

HintMissingKey == <<"Hints are currently unavailable (Missing API Key). Focus on the shape!">>
HintNoText == <<"Focus on the shape and location!">>
HintTrouble == <<"I'm having trouble retrieving a hint right now. Focus on the shape!">>
\* response.text of a successful generation, before trim()
HintResponse == <<" ", "It borders a sea.", " ">>
HintOutcomes == {"noKey", "text", "noText", "error"}

MsgIncorrect == [text |-> "Incorrect!", type |-> "error"]
MsgLoadFailed == [text |-> "Failed to load map data. Please refresh.", type |-> "error"]

VARIABLES
  geoData,            \* App.geoData: <<>> or <<features>>
  targetCountry,      \* App.targetCountry: <<>> or <<feature>>
  countryDetails,     \* App.countryDetails: <<>> or <<details>>
  gameStatus,         \* App.gameStatus
  hints,              \* App.hints
  isLoadingHint,      \* App.isLoadingHint
  message,            \* App.message: <<>> or <<[text, type]>>
  lives,              \* App.lives
  players,            \* App.players
  currentPlayerIndex, \* App.currentPlayerIndex
  leaderboard,        \* App.leaderboard
  showLeaderboard,    \* App.showLeaderboard
  loadPc,             \* the world.geojson fetch: "pending", "done", "failed"
  timers,             \* pending setTimeout callbacks, oldest first (all 1500 ms)
  fetches,            \* country-facts fetches in flight: kind -> how many
  hintCall,           \* the generateCountryHint call in flight: <<>> or <<call>>
  rounds,             \* startNewRound calls that got past the geoData guard
  turn,               \* history: round starts since the session's first
                      \* (nullable: no session is being played)
  detailsFor,         \* history: the feature countryDetails was resolved for
  detailsStale,       \* history: countryDetails came from a superseded fetch
  staleHints,         \* history: entries of hints appended by superseded calls
  call                \* a pure helper called on its own: its name, its
                      \* arguments and, once it has returned, its value

vars == << geoData, targetCountry, countryDetails, gameStatus, hints,
           isLoadingHint, message, lives, players, currentPlayerIndex,
           leaderboard, showLeaderboard, loadPc, timers, fetches,
           hintCall, rounds, turn, detailsFor, detailsStale, staleHints,
           call >>

\* No helper is being called on its own
NoCall == [fn |-> "none", args |-> <<>>, ret |-> <<>>]

\* The state the round's fields are in
roundVars == << targetCountry, countryDetails, gameStatus, hints,
                message, lives, detailsFor, detailsStale, staleHints >>

Features == IF geoData = <<>> THEN <<>> ELSE geoData[1]

\* A facts fetch in flight: the feature it asks about and whether the round it
\* was issued for has been superseded since
FetchKinds ==
  { [feature |-> WorldGeoJson[i], stale |-> s] :
      i \in { k \in DOMAIN WorldGeoJson : WorldGeoJson[k].id # "" },
      s \in BOOLEAN }

\* The component's state after construction
InitApp ==
  /\ geoData = <<>>
  /\ targetCountry = <<>>
  /\ countryDetails = <<>>
  /\ gameStatus = "LOADING"
  /\ hints = <<>>
  /\ isLoadingHint = FALSE
  /\ message = <<>>
  /\ lives = InitialLives
  /\ players = <<>>
  /\ currentPlayerIndex = 0
  /\ leaderboard = <<>>
  /\ showLeaderboard = FALSE
  /\ loadPc = "pending"
  /\ timers = <<>>
  /\ fetches = [k \in FetchKinds |-> 0]
  /\ hintCall = <<>>
  /\ rounds = 0
  /\ turn = <<>>
  /\ detailsFor = <<>>
  /\ detailsStale = FALSE
  /\ staleHints = 0

Init == InitApp /\ call = NoCall

\* ------------------------------------------------------- what is rendered

\* The start screen: {(!targetCountry && gameStatus === IDLE) && ...}
MenuVisible == targetCountry = <<>> /\ gameStatus = "IDLE"
\* The top bar with the End Game button
TopBarVisible == targetCountry # <<>> \/ gameStatus = "LOADING"
\* The result card with the next-round button (else: the guess form)
ResultVisible == gameStatus \in {"SUCCESS", "FAILURE"}
\* Rendering the next-round label reads players[(NaN + 1) % n].name when
\* n > 1, which throws; the component is then unmounted
Mounted ==
  ~(ResultVisible /\ Len(players) > 1 /\ currentPlayerIndex = NaN)

\* ----------------------------------------------------------- load effect

\* fetch(world.geojson).then(res => res.json()).then(data => ...)
LoadDataOk ==
  /\ loadPc = "pending"
  /\ loadPc' = "done"
  /\ geoData' = << filteredFeatures(WorldGeoJson) >>
  /\ gameStatus' = "IDLE"
  /\ UNCHANGED << targetCountry, countryDetails, hints, isLoadingHint,
                  message, lives, players, currentPlayerIndex, leaderboard,
                  showLeaderboard, timers, fetches, hintCall, rounds, turn,
                  detailsFor, detailsStale, staleHints >>
  /\ UNCHANGED call

\* ... .catch(err => setMessage(...))
LoadDataFail ==
  /\ loadPc = "pending"
  /\ loadPc' = "failed"
  /\ message' = << MsgLoadFailed >>
  /\ UNCHANGED << geoData, targetCountry, countryDetails, gameStatus, hints,
                  isLoadingHint, lives, players, currentPlayerIndex,
                  leaderboard, showLeaderboard, timers, fetches, hintCall,
                  rounds, turn, detailsFor, detailsStale, staleHints >>
  /\ UNCHANGED call

\* ------------------------------------------------------ player management

PlayerIds(ps) == { ps[i].id : i \in DOMAIN ps }

\* Date.now().toString(): an id no player of the roster has; the synthesized
\* default player has id 1
FreshId(ps) == CHOOSE n \in 2..(Len(ps) + 2) : n \notin PlayerIds(ps)

DefaultPlayer == [id |-> 1, name |-> <<"Player 1">>, score |-> 0, color |-> 0]

\* Submitting the add-player form with newPlayerName in its field
addPlayer(newPlayerName) ==
  /\ Mounted /\ MenuVisible /\ ~showLeaderboard
  /\ Len(players) < MaxPlayers
  /\ IF Trim(newPlayerName) = <<>>
       THEN UNCHANGED players
       ELSE players' = Append(players,
                              [id |-> FreshId(players),
                               name |-> Trim(newPlayerName),
                               score |-> 0,
                               color |-> Len(players) % PaletteSize])
  /\ UNCHANGED << geoData, targetCountry, countryDetails, gameStatus, hints,
                  isLoadingHint, message, lives, currentPlayerIndex,
                  leaderboard, showLeaderboard, loadPc, timers, fetches,
                  hintCall, rounds, turn, detailsFor, detailsStale, staleHints
                  >>
  /\ UNCHANGED call

removePlayer(id) ==
  /\ Mounted /\ MenuVisible /\ ~showLeaderboard
  /\ id \in PlayerIds(players)
  /\ players' = SelectSeq(players, LAMBDA p : p.id # id)
  /\ UNCHANGED << geoData, targetCountry, countryDetails, gameStatus, hints,
                  isLoadingHint, message, lives, currentPlayerIndex,
                  leaderboard, showLeaderboard, loadPc, timers, fetches,
                  hintCall, rounds, turn, detailsFor, detailsStale, staleHints
                  >>
  /\ UNCHANGED call

\* The View Leaderboard / Close buttons of the start screen
ToggleLeaderboard ==
  /\ Mounted /\ MenuVisible
  /\ showLeaderboard' = ~showLeaderboard
  /\ UNCHANGED << geoData, targetCountry, countryDetails, gameStatus, hints,
                  isLoadingHint, message, lives, players, currentPlayerIndex,
                  leaderboard, loadPc, timers, fetches, hintCall, rounds,
                  turn, detailsFor, detailsStale, staleHints >>
  /\ UNCHANGED call

\* ------------------------------------------------------------ round start

\* (prev + 1) % players.length, in JavaScript arithmetic
RotateIndexWrong(prev, n) ==
  IF prev = NaN \/ n = 0 THEN NaN ELSE prev + 1

RotateIndex(prev, n) ==
  IF prev = NaN \/ n = 0 THEN NaN ELSE (prev + 1) % n

\* Every request in flight now belongs to a round that is no longer current
Superseded(fs) ==
  [k \in FetchKinds |->
     IF k.stale THEN fs[k] + fs[[k EXCEPT !.stale = FALSE]] ELSE 0]

SupersededCall(hc) ==
  IF hc = <<>> THEN hc ELSE << [hc[1] EXCEPT !.stale = TRUE] >>

\* if (!geoData) return
NoCatalogWrong == FALSE
NoCatalog == geoData = <<>>

\* startNewRound(isFirstRound), called with currentPlayerIndex already idx0
startNewRound(isFirstRound, idx0) ==
  IF NoCatalog
    THEN /\ currentPlayerIndex' = idx0
         /\ UNCHANGED << roundVars, timers, fetches, hintCall, rounds >>
    ELSE /\ rounds < MaxRounds
         /\ rounds' = rounds + 1
         /\ currentPlayerIndex' =
              IF isFirstRound THEN idx0 ELSE RotateIndex(idx0, Len(players))
         /\ gameStatus' = "IDLE"
         /\ targetCountry' = <<>>
         /\ countryDetails' = <<>>
         /\ hints' = <<>>
         /\ message' = <<>>
         /\ lives' = InitialLives
         /\ timers' = Append(timers, [kind |-> "round"])
         /\ fetches' = Superseded(fetches)
         /\ hintCall' = SupersededCall(hintCall)
         /\ detailsFor' = <<>>
         /\ detailsStale' = FALSE
         /\ staleHints' = 0

\* let activePlayers = [...players]; if (activePlayers.length === 0) ...
activePlayersWrong(ps) == Append(ps, DefaultPlayer)
activePlayers(ps) == IF Len(ps) = 0 THEN << DefaultPlayer >> ELSE ps

\* The Start Game button
startGameSession ==
  /\ Mounted /\ MenuVisible /\ ~showLeaderboard
  /\ players' = activePlayers(players)
  /\ startNewRound(TRUE, 0)
  /\ turn' = IF geoData = <<>> THEN turn ELSE << 0 >>
  /\ UNCHANGED << geoData, isLoadingHint, leaderboard, showLeaderboard, loadPc
                  >>
  /\ UNCHANGED call

\* The next-round button of the result card: startNewRound(false)
NextRound ==
  /\ Mounted /\ ResultVisible
  /\ startNewRound(FALSE, currentPlayerIndex)
  /\ turn' = IF turn = <<>> THEN turn ELSE << turn[1] + 1 >>
  /\ UNCHANGED << geoData, isLoadingHint, players, leaderboard,
                  showLeaderboard, loadPc >>
  /\ UNCHANGED call

\* The setTimeout callback of startNewRound: pick the target, enter PLAYING,
\* ask for the country facts
SelectTarget ==
  /\ Mounted
  /\ timers # <<>> /\ Head(timers).kind = "round"
  /\ timers' = Tail(timers)
  /\ \E i \in DOMAIN Features :
       LET randomFeature == Features[i] IN
       /\ targetCountry' = << randomFeature >>
       /\ gameStatus' = "PLAYING"
       /\ IF randomFeature.id # ""
            THEN /\ fetches' =
                      [Superseded(fetches) EXCEPT
                         ![[feature |-> randomFeature, stale |-> FALSE]] = @ + 1]
                 /\ UNCHANGED << countryDetails, detailsFor, detailsStale >>
            ELSE /\ fetches' = Superseded(fetches)
                 /\ countryDetails' =
                      << [flag |-> "", name |-> randomFeature.name,
                          capital |-> "", region |-> ""] >>
                 /\ detailsFor' = << randomFeature >>
                 /\ detailsStale' = FALSE
  /\ hintCall' = SupersededCall(hintCall)
  /\ UNCHANGED << geoData, hints, isLoadingHint, message, lives, players,
                  currentPlayerIndex, leaderboard, showLeaderboard, loadPc,
                  rounds, turn, staleHints >>
  /\ UNCHANGED call

\* The setTimeout callback of handleSubmitGuess:
\* setMessage(prev => prev?.type === 'error' ? null : prev)
ClearMessage ==
  /\ Mounted
  /\ timers # <<>> /\ Head(timers).kind = "message"
  /\ timers' = Tail(timers)
  /\ message' = IF message # <<>> /\ message[1].type = "error" THEN <<>> ELSE message
  /\ UNCHANGED << geoData, targetCountry, countryDetails, gameStatus, hints,
                  isLoadingHint, lives, players, currentPlayerIndex,
                  leaderboard, showLeaderboard, loadPc, fetches, hintCall,
                  rounds, turn, detailsFor, detailsStale, staleHints >>
  /\ UNCHANGED call

\* The promise chain of the country-facts fetch settles
\*   ok:     data[0] with flags and name.common
\*   okBare: data[0] without flags, name, capital
\*   empty:  data or data[0] missing: nothing is set
\*   rejected: network error, !res.ok or bad JSON: the catch sets the fallback
FactsResult(f, outcome) ==
  IF outcome = "ok"
    THEN << [flag |-> "svg", name |-> CommonName(f),
             capital |-> "capital", region |-> "region"] >>
    ELSE << [flag |-> "", name |-> f.name, capital |-> "",
             region |-> IF outcome = "okBare" THEN "region" ELSE ""] >>

FactsDoneWrong(k, outcome) ==
  /\ Mounted
  /\ fetches[k] > 0
  /\ fetches' = [fetches EXCEPT ![k] = @ - 1]
  /\ IF outcome = "empty"
       THEN UNCHANGED << countryDetails, detailsFor, detailsStale >>
       ELSE /\ countryDetails' = FactsResult(k.feature, outcome)
            /\ detailsFor' = << k.feature >>
            /\ detailsStale' = k.stale
  /\ gameStatus' = "PLAYING"
  /\ UNCHANGED << geoData, targetCountry, hints, isLoadingHint,
                  message, lives, players, currentPlayerIndex, leaderboard,
                  showLeaderboard, loadPc, timers, hintCall, rounds, turn,
                  staleHints >>
  /\ UNCHANGED call

FactsDone(k, outcome) ==
  /\ Mounted
  /\ fetches[k] > 0
  /\ fetches' = [fetches EXCEPT ![k] = @ - 1]
  /\ IF outcome = "empty"
       THEN UNCHANGED << countryDetails, detailsFor, detailsStale >>
       ELSE /\ countryDetails' = FactsResult(k.feature, outcome)
            /\ detailsFor' = << k.feature >>
            /\ detailsStale' = k.stale
  /\ UNCHANGED << geoData, targetCountry, gameStatus, hints, isLoadingHint,
                  message, lives, players, currentPlayerIndex, leaderboard,
                  showLeaderboard, loadPc, timers, hintCall, rounds, turn,
                  staleHints >>
  /\ UNCHANGED call

\* ---------------------------------------------------------------- gameplay

\* setPlayers(prev => prev.map((p, i) => i === currentPlayerIndex ? ... : p))
updateCurrentPlayerScoreWrong(ps, idx, points) ==
  [i \in 1..Len(ps) |-> [ps[i] EXCEPT !.score = @ + points]]

updateCurrentPlayerScore(ps, idx, points) ==
  [i \in 1..Len(ps) |->
     IF i - 1 = idx THEN [ps[i] EXCEPT !.score = @ + points] ELSE ps[i]]

\* userGuess.toLowerCase().trim()
NormalizedGuess(userGuess) == Trim(ToLowerCase(userGuess))

\* The names checkMatch can be called with: targetCountry.properties.name,
\* countryDetails?.name (null before the facts arrive)
MatchTargets ==
  {<<>>} \cup { << WorldGeoJson[i].name >> : i \in DOMAIN WorldGeoJson }
         \cup { << CommonName(WorldGeoJson[i]) >> : i \in DOMAIN WorldGeoJson }

\* checkMatch(target) for each name and each content of the guess field,
\* computed once
checkMatchOf ==
  [target \in MatchTargets, userGuess \in GuessInputs |->
     checkMatch(target, NormalizedGuess(userGuess))]

\* checkMatch(correctName) || checkMatch(commonName)
isCorrect(userGuess) ==
  \/ checkMatchOf[<< targetCountry[1].name >>, userGuess]
  \/ checkMatchOf[IF countryDetails = <<>> THEN <<>>
                                           ELSE << countryDetails[1].name >>,
                  userGuess]

\* The early return of handleSubmitGuess does not apply
GuessAcceptedWrong(userGuess) ==
  targetCountry # <<>> /\ gameStatus = "PLAYING"
GuessAccepted(userGuess) ==
  targetCountry # <<>> /\ Trim(userGuess) # <<>> /\ gameStatus = "PLAYING"

\* const newLives = lives - 1
NewLivesWrong(l) == l - 2
NewLives(l) == l - 1

\* newLives <= 0
OutOfLivesWrong(newLives) == newLives < 0
OutOfLives(newLives) == newLives <= 0

\* Submitting the guess form with userGuess in its field
handleSubmitGuess(userGuess) ==
  /\ Mounted /\ ~ResultVisible
  /\ UNCHANGED << geoData, targetCountry, countryDetails, hints,
                  isLoadingHint, currentPlayerIndex, leaderboard,
                  showLeaderboard, loadPc, fetches, hintCall, rounds, turn,
                  detailsFor, detailsStale, staleHints >>
  /\ IF ~GuessAccepted(userGuess)
       THEN UNCHANGED << gameStatus, players, lives, message, timers >>
       ELSE IF isCorrect(userGuess)
         THEN /\ gameStatus' = "SUCCESS"
              /\ players' = updateCurrentPlayerScore(players, currentPlayerIndex,
                                                     ScoreStep)
              /\ UNCHANGED << lives, message, timers >>
         ELSE /\ lives' = NewLives(lives)
              /\ players' = updateCurrentPlayerScore(players, currentPlayerIndex,
                                                     -ScoreStep)
              /\ IF OutOfLives(NewLives(lives))
                   THEN /\ gameStatus' = "FAILURE"
                        /\ UNCHANGED << message, timers >>
                   ELSE /\ message' = << MsgIncorrect >>
                        /\ timers' = Append(timers, [kind |-> "message"])
                        /\ UNCHANGED gameStatus
  /\ UNCHANGED call

\* setLives(prev => Math.max(0, prev - 1))
SkipLivesWrong(l) == l - 1
SkipLives(l) == Max(0, l - 1)

handleSkip ==
  /\ Mounted /\ ~ResultVisible
  /\ IF gameStatus # "PLAYING"
       THEN UNCHANGED << lives, players, gameStatus >>
       ELSE /\ lives' = SkipLives(lives)
            /\ players' = updateCurrentPlayerScore(players, currentPlayerIndex,
                                                   -ScoreStep)
            /\ gameStatus' = "FAILURE"
  /\ UNCHANGED << geoData, targetCountry, countryDetails, hints,
                  isLoadingHint, message, currentPlayerIndex, leaderboard,
                  showLeaderboard, loadPc, timers, fetches, hintCall, rounds,
                  turn, detailsFor, detailsStale, staleHints >>
  /\ UNCHANGED call

\* ------------------------------------------------------------------- hints

\* handleRequestHint up to the await (the button is disabled while loading)
\* if (!targetCountry || isLoadingHint) return
HintRefusedWrong == targetCountry = <<>>
HintRefused == targetCountry = <<>> \/ isLoadingHint

handleRequestHint ==
  /\ Mounted /\ ~ResultVisible
  /\ Len(hints) < MaxHints
  /\ IF HintRefused
       THEN UNCHANGED << isLoadingHint, hintCall >>
       ELSE /\ isLoadingHint' = TRUE
            /\ hintCall' = << [name |-> targetCountry[1].name, stale |-> FALSE] >>
  /\ UNCHANGED << geoData, targetCountry, countryDetails, gameStatus, hints,
                  message, lives, players, currentPlayerIndex, leaderboard,
                  showLeaderboard, loadPc, timers, fetches, rounds, turn,
                  detailsFor, detailsStale, staleHints >>
  /\ UNCHANGED call

\* generateCountryHint: what the promise resolves to
generateCountryHint(outcome) ==
  CASE outcome = "noKey" -> HintMissingKey
    [] outcome = "noText" -> HintNoText
    [] outcome = "error" -> HintTrouble
    [] OTHER -> Trim(HintResponse)

\* handleRequestHint after the await
HintDoneWrong(outcome) ==
  /\ Mounted
  /\ hintCall # <<>>
  /\ hints' = Append(hints, generateCountryHint(outcome))
  /\ hintCall' = <<>>
  /\ staleHints' = IF hintCall[1].stale THEN staleHints + 1 ELSE staleHints
  /\ UNCHANGED << geoData, targetCountry, countryDetails, gameStatus, message,
                  lives, players, currentPlayerIndex, leaderboard,
                  showLeaderboard, loadPc, timers, fetches, rounds, turn,
                  detailsFor, detailsStale, isLoadingHint >>
  /\ UNCHANGED call

HintDone(outcome) ==
  /\ Mounted
  /\ hintCall # <<>>
  /\ hints' = Append(hints, generateCountryHint(outcome))
  /\ isLoadingHint' = FALSE
  /\ hintCall' = <<>>
  /\ staleHints' = IF hintCall[1].stale THEN staleHints + 1 ELSE staleHints
  /\ UNCHANGED << geoData, targetCountry, countryDetails, gameStatus, message,
                  lives, players, currentPlayerIndex, leaderboard,
                  showLeaderboard, loadPc, timers, fetches, rounds, turn,
                  detailsFor, detailsStale >>
  /\ UNCHANGED call

\* ------------------------------------------------------------- end of game

\* players.map(p => ({name, score, date})).filter(p => p.score > 0)
AdmittedWrong(p) == p.score >= 0
Admitted(p) == p.score > 0
newEntries(ps) ==
  LET kept == SelectSeq(ps, Admitted)
  IN [i \in 1..Len(kept) |-> [name |-> kept[i].name, score |-> kept[i].score]]

\* One step of the stable sort by (a, b) => b.score - a.score: e goes behind
\* every entry whose score is at least its own
RECURSIVE InsertEntryWrong(_, _)
InsertEntryWrong(sorted, e) ==
  IF sorted = <<>> THEN << e >>
  ELSE IF Head(sorted).score > e.score
    THEN << Head(sorted) >> \o InsertEntryWrong(Tail(sorted), e)
    ELSE << e >> \o sorted

RECURSIVE InsertEntry(_, _)
InsertEntry(sorted, e) ==
  IF sorted = <<>> THEN << e >>
  ELSE IF Head(sorted).score >= e.score
    THEN << Head(sorted) >> \o InsertEntry(Tail(sorted), e)
    ELSE << e >> \o sorted

RECURSIVE SortByScore(_)
SortByScore(entries) ==
  IF entries = <<>> THEN <<>>
  ELSE InsertEntry(SortByScore(SubSeq(entries, 1, Len(entries) - 1)),
                   entries[Len(entries)])

\* .slice(0, 50)
SliceWrong(entries, n) == entries
Slice(entries, n) == SubSeq(entries, 1, Min(Len(entries), n))

\* The End Game button of the top bar
handleEndGame ==
  /\ Mounted /\ TopBarVisible
  /\ leaderboard' = Slice(SortByScore(leaderboard \o newEntries(players)),
                          LeaderboardCap)
  /\ players' = <<>>
  /\ gameStatus' = "IDLE"
  /\ showLeaderboard' = TRUE
  /\ targetCountry' = <<>>
  /\ fetches' = Superseded(fetches)
  /\ hintCall' = SupersededCall(hintCall)
  /\ turn' = <<>>
  /\ UNCHANGED << geoData, countryDetails, hints, isLoadingHint, message,
                  lives, currentPlayerIndex, loadPc, timers, rounds,
                  detailsFor, detailsStale, staleHints >>
  /\ UNCHANGED call

\* ------------------------------------------------------------ specification

\* The round lifecycle: loading, session and round start, timers, facts,
\* guesses, skip, end of game
Lifecycle ==
  \/ LoadDataOk
  \/ LoadDataFail
  \/ ToggleLeaderboard
  \/ startGameSession
  \/ NextRound
  \/ SelectTarget
  \/ ClearMessage
  \/ \E k \in FetchKinds, outcome \in FactsOutcomes : FactsDone(k, outcome)
  \/ \E g \in GuessInputs : handleSubmitGuess(g)
  \/ handleSkip
  \/ handleEndGame

\* Editing the roster on the start screen
Roster ==
  \/ \E n \in NameInputs : addPlayer(n)
  \/ \E id \in PlayerIds(players) : removePlayer(id)

\* Asking for hints
Hints ==
  \/ handleRequestHint
  \/ \E outcome \in HintOutcomes : HintDone(outcome)

\* The whole component
Next == Lifecycle \/ Roster \/ Hints
Spec == Init /\ [][Next]_vars

\* The roster and the hint list never read or write each other's fields, so
\* the product above is checked as its two halves: the game with an editable
\* roster, and the game of the default player with hints
NextGame == Lifecycle \/ Roster
SpecGame == Init /\ [][NextGame]_vars

NextHints == Lifecycle \/ Hints
SpecHints == Init /\ [][NextHints]_vars

\* generateCountryHint catches every error and returns a string, and the call
\* it awaits settles, so the continuation of handleRequestHint gets to run
HintSettles == \E outcome \in HintOutcomes : HintDone(outcome)
SpecHintsLive == Init /\ [][NextHints]_vars /\ WF_vars(HintSettles)

\* ------------------------------------------------- ending a long session

\* The leaderboard is kept in localStorage and read back when the component
\* mounts, and a roster can have been played for any number of rounds.  The
\* End Game handler is therefore also run on its own, on leaderboards it has
\* written before (up to the cap of 50) and on rosters with scores of up to
\* three rounds won or lost.

\* The i-th two-letter name: aa, ba, ..., za, ab, ...
SavedName(i) ==
  << LowerChars[((i - 1) % 26) + 1], LowerChars[((i - 1) \div 26) + 1] >>

\* A leaderboard written by earlier sessions: n entries, the first h of them
\* with score 10 and the others with score 5
SavedLeaderboard(n, h) ==
  [i \in 1..n |-> [name |-> SavedName(i),
                   score |-> IF i <= h THEN 2 * ScoreStep ELSE ScoreStep]]

\* JSON.parse(localStorage.getItem('countrySnapLeaderboard'))
SavedLeaderboards ==
  { SavedLeaderboard(n, h) :
      n \in {0, 1, LeaderboardCap - 1, LeaderboardCap},
      h \in {0, 1, LeaderboardCap - 1, LeaderboardCap} }

\* The scores a player can have when the session is ended
EndedScores == { -ScoreStep, 0, ScoreStep, 2 * ScoreStep, 3 * ScoreStep }

\* The rosters a session can be ended with
EndedRosters ==
  UNION { { [i \in 1..n |-> [id |-> i + 1, name |-> << UpperChars[i] >>,
                             score |-> sc[i], color |-> (i - 1) % PaletteSize]]
            : sc \in [1..n -> EndedScores] }
          : n \in 0..MaxEnded }

\* A round in play (on Chad, whose facts need no fetch) with such a roster and
\* such a leaderboard
InitEnding ==
  /\ geoData = << filteredFeatures(WorldGeoJson) >>
  /\ targetCountry = << WorldGeoJson[3] >>
  /\ countryDetails = << [flag |-> "", name |-> WorldGeoJson[3].name,
                          capital |-> "", region |-> ""] >>
  /\ gameStatus = "PLAYING"
  /\ hints = <<>>
  /\ isLoadingHint = FALSE
  /\ message = <<>>
  /\ lives = InitialLives
  /\ players \in EndedRosters
  /\ currentPlayerIndex = 0
  /\ leaderboard \in SavedLeaderboards
  /\ showLeaderboard = FALSE
  /\ loadPc = "done"
  /\ timers = <<>>
  /\ fetches = [k \in FetchKinds |-> 0]
  /\ hintCall = <<>>
  /\ rounds = MaxRounds
  /\ turn = << 0 >>
  /\ detailsFor = << WorldGeoJson[3] >>
  /\ detailsStale = FALSE
  /\ staleHints = 0
  /\ call = NoCall

NextEnding == handleEndGame
SpecEnding == InitEnding /\ [][NextEnding]_vars

\* ------------------------------------------------------- the map's zoom

\* A JavaScript number as a fraction n/d with d >= 0: d = 0 is Infinity when
\* n > 0 and NaN when n = 0
Num(n, d) == [n |-> n, d |-> d]
IsNaN(p) == p.n = 0 /\ p.d = 0
\* p / q  and  p < q  for numbers that are not negative
Div(p, q) ==
  LET n == p.n * q.d
      d == p.d * q.n
  IN IF d = 0 /\ n > 0 THEN Num(1, 0) ELSE Num(n, d)
Less(p, q) == ~IsNaN(p) /\ ~IsNaN(q) /\ p.n * q.d < q.n * p.d
MathMax(p, q) ==
  IF IsNaN(p) \/ IsNaN(q) THEN Num(0, 0) ELSE IF Less(p, q) THEN q ELSE p
MathMin(p, q) ==
  IF IsNaN(p) \/ IsNaN(q) THEN Num(0, 0) ELSE IF Less(q, p) THEN q ELSE p

\* 0.85, in hundredths, and the largest scale of the automatic zoom
PaddingPercent == 85
MaxScale == 50

\* const scale = Math.max(1, Math.min(50, 0.85 / Math.max(dx / width, dy / height)))
scaleWrong(dx, dy, width, height) ==
  MathMax(Num(1, 1),
          Div(Num(PaddingPercent, 100),
              MathMax(Div(Num(dx, 1), Num(width, 1)),
                      Div(Num(dy, 1), Num(height, 1)))))
scale(dx, dy, width, height) ==
  MathMax(Num(1, 1),
          MathMin(Num(MaxScale, 1),
                  Div(Num(PaddingPercent, 100),
                      MathMax(Div(Num(dx, 1), Num(width, 1)),
                              Div(Num(dy, 1), Num(height, 1))))))

\* d3.zoomIdentity
zoomIdentity == [k |-> Num(1, 1), x |-> Num(0, 1), y |-> Num(0, 1)]

\* The transform the zoom effect of Map hands to zoom.transform; bounds is
\* pathGenerator.bounds(targetFeature), and window.__path is set by the effect
\* that creates the zoom behaviour this effect requires
transform(targetFeature, status, bounds, width, height) ==
  IF targetFeature /\ status \in {"PLAYING", "SUCCESS", "FAILURE"}
    THEN LET dx == bounds[2][1] - bounds[1][1]
             dy == bounds[2][2] - bounds[1][2]
             k == scale(dx, dy, width, height)
         IN \* translate(width / 2, height / 2).scale(k).translate(-x, -y)
            \* with x, y the centre of the box
            [k |-> k,
             x |-> Num(width * k.d - k.n * (bounds[1][1] + bounds[2][1]), 2 * k.d),
             y |-> Num(height * k.d - k.n * (bounds[1][2] + bounds[2][2]), 2 * k.d)]
    ELSE zoomIdentity

\* ------------------------------------------------ the helpers on their own

\* handleSubmitGuess builds checkMatch from the text of the input field,
\* levenshteinDistance is a module-level function and the zoom effect of Map
\* computes its transform from its props: each is also run on its own, next
\* to a round in play, on names of every threshold class and guesses at every
\* distance from them, and on boxes from a point to wider than the window.

appVars ==
  << geoData, targetCountry, countryDetails, gameStatus, hints, isLoadingHint,
     message, lives, players, currentPlayerIndex, leaderboard, showLeaderboard,
     loadPc, timers, fetches, hintCall, rounds, turn, detailsFor, detailsStale,
     staleHints >>

Str_France == <<"F","r","a","n","c","e">>
Str_UAE == <<"U","A","E">>
Str_Switzerland == <<"S","w","i","t","z","e","r","l","a","n","d">>
Str_MarshallIslands ==
  <<"M","a","r","s","h","a","l","l"," ","I","s","l","a","n","d","s">>

\* properties.name / name.common of the features checkMatch is given
TargetNames ==
  { Str_UAE, Str_Chad, Str_Italy, Str_France, Str_Switzerland,
    Str_MarshallIslands }

\* name with its first k characters mistyped, and name without them
Mistyped(name, k) == [i \in 1..Len(name) |-> IF i <= k THEN "x" ELSE name[i]]
Shortened(name, k) == SubSeq(name, k + 1, Len(name))

\* What can be in the input field when checkMatch is built
TypedGuesses ==
  UNION { { Mistyped(n, k) : k \in 0..MaxTypos } \cup
          { Shortened(n, k) : k \in 1..Min(MaxTypos, Len(n) - 1) }
          : n \in TargetNames }
    \cup { <<"F","r","a","n","s","e">>, <<"i","t","l","y">>,
           <<" ","I","T","A","L","Y"," ">>, <<"F","r","a">>,
           <<"c","h","a">>, <<"F","r","a","n","c","e","s">> }

\* The short strings levenshteinDistance is run on
RECURSIVE Strings(_)
Strings(n) ==
  IF n = 0 THEN { <<>> }
  ELSE Strings(n - 1) \cup
       { Append(w, c) : w \in { v \in Strings(n - 1) : Len(v) = n - 1 },
                        c \in {"a", "b"} }

Str_kitten == <<"k","i","t","t","e","n">>
Str_sitting == <<"s","i","t","t","i","n","g">>

checkMatchCalls ==
  { [fn |-> "checkMatch", args |-> << t, g >>, ret |-> <<>>] :
      t \in TargetNames, g \in TypedGuesses }
levenshteinCalls ==
  { [fn |-> "levenshteinDistance", args |-> << a, b >>, ret |-> <<>>] :
      a \in Strings(MaxLen), b \in Strings(MaxLen) }
    \cup { [fn |-> "levenshteinDistance",
            args |-> << Str_kitten, Str_sitting >>, ret |-> <<>>] }

\* Where a shape's box can begin, how far it can span, and how wide or high
\* the window can be
BoxOrigins == {0, 3}
BoxSpans == {0, 1, 2, 50, 100}
CanvasSizes == {1, 2, 100}
Statuses == {"LOADING", "IDLE", "PLAYING", "SUCCESS", "FAILURE"}

transformCalls ==
  { [fn |-> "transform",
     args |-> << t, st, << << x0, y0 >>, << x0 + dx, y0 + dy >> >>, w, h >>,
     ret |-> <<>>] :
      t \in BOOLEAN, st \in Statuses, x0 \in BoxOrigins, y0 \in BoxOrigins,
      dx \in BoxSpans, dy \in BoxSpans, w \in CanvasSizes, h \in CanvasSizes }

\* The first round of a one-player session, on Italy, before the facts of the
\* country have arrived, and one helper about to be called
InitHelpers ==
  /\ geoData = << filteredFeatures(WorldGeoJson) >>
  /\ targetCountry = << WorldGeoJson[1] >>
  /\ countryDetails = <<>>
  /\ gameStatus = "PLAYING"
  /\ hints = <<>>
  /\ isLoadingHint = FALSE
  /\ message = <<>>
  /\ lives = InitialLives
  /\ players = activePlayers(<<>>)
  /\ currentPlayerIndex = 0
  /\ leaderboard = <<>>
  /\ showLeaderboard = FALSE
  /\ loadPc = "done"
  /\ timers = <<>>
  /\ fetches = [k \in FetchKinds |->
                  IF k = [feature |-> WorldGeoJson[1], stale |-> FALSE]
                    THEN 1 ELSE 0]
  /\ hintCall = <<>>
  /\ rounds = 1
  /\ turn = << 0 >>
  /\ detailsFor = <<>>
  /\ detailsStale = FALSE
  /\ staleHints = 0
  /\ call \in checkMatchCalls \cup levenshteinCalls \cup transformCalls

\* checkMatch(target) returns, guess being userGuess.toLowerCase().trim()
checkMatchReturns ==
  /\ call.fn = "checkMatch" /\ call.ret = <<>>
  /\ call' = [call EXCEPT !.ret =
                << checkMatch(<< call.args[1] >>, NormalizedGuess(call.args[2])) >>]
  /\ UNCHANGED appVars

\* levenshteinDistance(a, b) returns
levenshteinReturns ==
  /\ call.fn = "levenshteinDistance" /\ call.ret = <<>>
  /\ call' = [call EXCEPT !.ret =
                << levenshteinDistance(call.args[1], call.args[2]) >>]
  /\ UNCHANGED appVars

\* The zoom effect of Map has computed its transform
transformReturns ==
  /\ call.fn = "transform" /\ call.ret = <<>>
  /\ call' = [call EXCEPT !.ret =
                << transform(call.args[1], call.args[2], call.args[3],
                             call.args[4], call.args[5]) >>]
  /\ UNCHANGED appVars

\* The guess form of the round in play
SubmitsGuess == \E userGuess \in GuessInputs : handleSubmitGuess(userGuess)

NextHelpers ==
  checkMatchReturns \/ levenshteinReturns \/ transformReturns \/ SubmitsGuess
SpecHelpers == InitHelpers /\ [][NextHelpers]_vars

\* ------------------------------------------------------------------ claims

\* C1: in every reachable state livesRemaining is an integer with
\* 0 <= livesRemaining <= 3.
C1_LivesInRange == lives \in 0..InitialLives

\* The steps the claims speak of
\* an accepted submitGuess whose text the Match Judge rejects / accepts
WrongGuessStep ==
  \E g \in GuessInputs :
    handleSubmitGuess(g) /\ GuessAccepted(g) /\ ~isCorrect(g)
CorrectGuessStep ==
  \E g \in GuessInputs :
    handleSubmitGuess(g) /\ GuessAccepted(g) /\ isCorrect(g)
\* skip() while Playing
SkipStep == gameStatus = "PLAYING" /\ handleSkip

\* C2: a round's status becomes Failure if and only if an incorrect guess
\* brought livesRemaining to 0 or skip() was called while Playing; it becomes
\* Success only as the direct result of a submitGuess the Match Judge accepts.
C2_StatusCauses ==
  [][ /\ (gameStatus # "FAILURE" /\ gameStatus' = "FAILURE")
           <=> ((WrongGuessStep /\ lives' = 0) \/ SkipStep)
      /\ (gameStatus # "SUCCESS" /\ gameStatus' = "SUCCESS") => CorrectGuessStep
    ]_vars

C4_NoStaleResult == ~detailsStale /\ staleHints = 0

\* The guess matches the canonical name of the current target or the
\* alternate (common) name of that same target
MatchesTarget(g) ==
  \/ checkMatch(<< targetCountry[1].name >>, NormalizedGuess(g))
  \/ checkMatch(<< CommonName(targetCountry[1]) >>, NormalizedGuess(g))

\* C5: submitGuess in Playing yields Success only if the guess matches the
\* canonical name of the current round's target or the alternate name of that
\* same target.
C5_SuccessOnlyForTarget ==
  [][ \A g \in GuessInputs :
        (GuessAccepted(g) /\ handleSubmitGuess(g) /\ gameStatus' = "SUCCESS")
          => MatchesTarget(g)
    ]_vars

\* C6: whenever the roster is non-empty, currentPlayerIndex is an integer with
\* 0 <= currentPlayerIndex < number of players.
C6_IndexValid ==
  players # <<>> => currentPlayerIndex \in 0..(Len(players) - 1)

\* C7: in a session with n >= 1 players the first round is played with
\* currentPlayerIndex = 0 and the k-th subsequent startRound sets
\* currentPlayerIndex to k mod n.
C7_TurnIsKModN ==
  (turn # <<>> /\ players # <<>>)
    => currentPlayerIndex = turn[1] % Len(players)

\* The score of every player, by position
Scores(ps) == [i \in DOMAIN ps |-> ps[i].score]

\* Only the player at currentPlayerIndex changes, and only that player's
\* score, by delta
OnlyCurrentScore(delta) ==
  /\ DOMAIN players' = DOMAIN players
  /\ \A i \in DOMAIN players :
       players'[i] = IF i - 1 = currentPlayerIndex
                       THEN [players[i] EXCEPT !.score = @ + delta]
                       ELSE players[i]

C9_TerminalUntilNextRound ==
  [][ (ResultVisible /\ ~NextRound /\ ~handleEndGame)
        => /\ UNCHANGED << gameStatus, targetCountry, lives >>
           /\ Scores(players') = Scores(players)
    ]_vars

\* C10: every transition into Playing happens with livesRemaining = 3, an
\* empty hint list and an empty transient message.
C10_FreshOnPlaying ==
  [][ (gameStatus # "PLAYING" /\ gameStatus' = "PLAYING")
        => (lives' = InitialLives /\ hints' = <<>> /\ message' = <<>>)
    ]_vars

\* C11: at most one hint request is in flight at any time: requestHint()
\* invoked while a hint request is pending, or while no target exists, issues
\* no request and changes no state.
C11_OneHintInFlight ==
  [][ /\ (hintCall # <<>>) => isLoadingHint
      /\ (handleRequestHint /\ (hintCall # <<>> \/ targetCountry = <<>>))
           => UNCHANGED vars
    ]_vars

\* A request is pending while the hint button can be pressed again
C11_Witness ==
  /\ hintCall # <<>> /\ isLoadingHint
  /\ targetCountry # <<>> /\ gameStatus = "PLAYING" /\ Len(hints) < MaxHints

\* C12: completion of a facts fetch or of a hint generation only adds data
\* (sets the facts record, appends one hint): it leaves status, target,
\* livesRemaining, the roster, every score and currentPlayerIndex unchanged.
C12_CompletionOnlyAddsData ==
  [][ /\ (\E k \in FetchKinds, outcome \in FactsOutcomes : FactsDone(k, outcome))
           => UNCHANGED << gameStatus, targetCountry, lives, players,
                           currentPlayerIndex, hints >>
      /\ (\E outcome \in HintOutcomes : HintDone(outcome))
           => /\ UNCHANGED << gameStatus, targetCountry, lives, players,
                              currentPlayerIndex, countryDetails >>
              /\ Len(hints') = Len(hints) + 1
              /\ SubSeq(hints', 1, Len(hints)) = hints
    ]_vars

\* In the pause after "next round" a facts response and a hint of the round
\* before have both arrived, and the engine still waits in Idle with no target
C12_Witness ==
  /\ turn = << 1 >> /\ gameStatus = "IDLE" /\ targetCountry = <<>>
  /\ detailsStale /\ staleHints > 0

\* An invocation with invalid input: a guess that is empty after trimming,
\* a guess or a skip when status is not Playing or no target exists, a player
\* name that is empty after trimming
InvalidInputStep ==
  \/ \E g \in GuessInputs :
       /\ handleSubmitGuess(g)
       /\ Trim(g) = <<>> \/ gameStatus # "PLAYING" \/ targetCountry = <<>>
  \/ handleSkip /\ (gameStatus # "PLAYING" \/ targetCountry = <<>>)
  \/ \E n \in NameInputs : addPlayer(n) /\ Trim(n) = <<>>

\* C13: invalid input is a no-op: it leaves status, lives, scores, roster,
\* hints and turn pointer unchanged.
C13_InvalidInputNoOp ==
  [][ InvalidInputStep
        => UNCHANGED << gameStatus, lives, players, hints, currentPlayerIndex >>
    ]_vars

\* A round in play, with a life already lost by the second of two players:
\* a blank guess can be submitted here
C13_Witness ==
  /\ gameStatus = "PLAYING" /\ targetCountry # <<>>
  /\ lives = InitialLives - 1 /\ Len(players) = 2 /\ currentPlayerIndex = 1

\* The players of the roster in order, by identity
RosterIds(ps) == [i \in DOMAIN ps |-> ps[i].id]

\* C14: the roster is fixed while a session is active: between startSession()
\* and endSession(), including the interval between a startRound() call and
\* the moment the new target appears, addPlayer and removePlayer are rejected
\* and the set and order of players does not change.
C14_RosterFixedInSession ==
  [][ (turn # <<>> /\ turn' # <<>>) => RosterIds(players') = RosterIds(players)
    ]_vars

\* C15: startSession() with an empty roster produces a roster of exactly one
\* default player with score 0; with a non-empty roster it keeps the roster as
\* is; in both cases it sets currentPlayerIndex to 0 and starts the first
\* round (when there is a catalog to draw from) without rotating the turn.
C15_SessionStart ==
  [][ startGameSession =>
        /\ IF players = <<>>
             THEN Len(players') = 1 /\ players'[1].score = 0
             ELSE players' = players
        /\ currentPlayerIndex' = 0
        /\ geoData # <<>> =>
             /\ timers' = Append(timers, [kind |-> "round"])
             /\ gameStatus' = "IDLE" /\ targetCountry' = <<>>
             /\ lives' = InitialLives /\ hints' = <<>>
    ]_vars

\* A session has just been started on a roster of two entered by hand: no
\* default player was added and the first player is up
C15_Witness ==
  /\ turn = << 0 >> /\ timers = << [kind |-> "round"] >>
  /\ targetCountry = <<>> /\ gameStatus = "IDLE"
  /\ Len(players) = 2 /\ DefaultPlayer.id \notin PlayerIds(players)
  /\ currentPlayerIndex = 0

\* C16: after endSession() the roster is empty, the turn pointer is reset to
\* its initial value, status is Idle and no target exists, and this remains
\* so until the next startSession(): no timer or asynchronous completion
\* issued during the ended session re-creates a target or moves status away
\* from Idle.
C16_EndedStaysIdle ==
  [][ /\ handleEndGame =>
           /\ players' = <<>> /\ currentPlayerIndex' = 0
           /\ gameStatus' = "IDLE" /\ targetCountry' = <<>>
      /\ (turn = <<>> /\ gameStatus = "IDLE" /\ targetCountry = <<>>
            /\ ~startGameSession)
           => (gameStatus' = "IDLE" /\ targetCountry' = <<>>)
    ]_vars

\* C17: in every reachable state the leaderboard has at most 50 entries and
\* its scores are in non-increasing order.
C17_LeaderboardSortedCapped ==
  /\ Len(leaderboard) <= LeaderboardCap
  /\ \A i \in 1..(Len(leaderboard) - 1) :
       leaderboard[i].score >= leaderboard[i + 1].score

\* A session was ended against a full leaderboard, which is still full
C17_Witness ==
  /\ players = <<>> /\ gameStatus = "IDLE" /\ showLeaderboard
  /\ Len(leaderboard) = LeaderboardCap
  /\ leaderboard[1].name = << UpperChars[1] >>

\* The players of the roster with a positive score, in roster order
PositiveScorers(ps) == { i \in DOMAIN ps : ps[i].score > 0 }

\* C18: endSession() admits to the leaderboard only players whose final
\* score is > 0: a player with score <= 0 never produces a leaderboard entry,
\* and every leaderboard entry has score > 0 (recording scores -5 and 10
\* against an empty ledger yields exactly the one entry with score 10).
C18_OnlyPositiveAdmitted ==
  [][ handleEndGame =>
        /\ \A i \in DOMAIN leaderboard' : leaderboard'[i].score > 0
        /\ Len(leaderboard') =
             Min(LeaderboardCap,
                 Len(leaderboard) + Cardinality(PositiveScorers(players)))
        /\ (/\ leaderboard = <<>> /\ Len(players) = 2
            /\ players[1].score = -ScoreStep /\ players[2].score = 2 * ScoreStep)
             => leaderboard' =
                  << [name |-> players[2].name, score |-> 2 * ScoreStep] >>
    ]_vars

\* Scores -5 and 10 have been recorded against an empty ledger
C18_Witness ==
  /\ players = <<>> /\ showLeaderboard
  /\ leaderboard = << [name |-> << UpperChars[2] >>, score |-> 2 * ScoreStep] >>

\* The ledger followed by the entries of the roster's positive scorers, in
\* roster order
Candidates(lb, ps) ==
  lb \o [k \in 1..Len(SelectSeq(ps, LAMBDA p : p.score > 0)) |->
           [name |-> SelectSeq(ps, LAMBDA p : p.score > 0)[k].name,
            score |-> SelectSeq(ps, LAMBDA p : p.score > 0)[k].score]]

\* The place of candidate p when the candidates are put in descending order
\* of score and candidates of equal score keep their order
Rank(c, p) ==
  1 + Cardinality({ q \in DOMAIN c : c[q].score > c[p].score })
    + Cardinality({ q \in 1..(p - 1) : c[q].score = c[p].score })

\* C19: recording merges the admitted entries with the existing ledger and
\* keeps the 50 highest-scoring entries of the union: kept entries are never
\* modified, an entry is dropped only if at least 50 kept entries have a
\* score >= its score, and among entries with equal score previously recorded
\* entries precede newly recorded ones and new entries keep roster order.
C19_MergeKeepsTop50 ==
  [][ handleEndGame =>
        LET c == Candidates(leaderboard, players) IN
        /\ Len(leaderboard') = Min(Len(c), LeaderboardCap)
        /\ \A p \in DOMAIN c :
             Rank(c, p) <= LeaderboardCap => leaderboard'[Rank(c, p)] = c[p]
    ]_vars

\* A full ledger of one entry with score 10 and 49 with score 5 has taken in
\* a 15 and a 10: the 15 leads, the new 10 stands behind the old 10, and the
\* last two of the old entries are gone
C19_Witness ==
  /\ players = <<>> /\ showLeaderboard
  /\ Len(leaderboard) = LeaderboardCap
  /\ leaderboard[1].score = 3 * ScoreStep
  /\ leaderboard[2] = [name |-> SavedName(1), score |-> 2 * ScoreStep]
  /\ leaderboard[3].score = 2 * ScoreStep /\ Len(leaderboard[3].name) = 1
  /\ leaderboard[LeaderboardCap].name = SavedName(LeaderboardCap - 2)

\* C20 (as claimed): if the world catalog fails to load, the engine never
\* proceeds past Idle: no target is created, status is never Loading, Playing,
\* Success or Failure, and the load-error message stays set.
C20_FailedLoadStaysIdle ==
  loadPc = "failed" =>
    /\ gameStatus = "IDLE" /\ targetCountry = <<>>
    /\ message = << MsgLoadFailed >>

\* C20 (amended): if the world catalog fails to load, status stays Loading,
\* its initial value, or Idle once End Game has been pressed; no sequence of
\* actions creates a target or reaches Playing, Success or Failure, Start Game
\* starts no round and schedules nothing, and the load-error message stays set.
C20_FailedLoadNoRound ==
  loadPc = "failed" =>
    /\ gameStatus \in {"LOADING", "IDLE"} /\ targetCountry = <<>>
    /\ geoData = <<>> /\ timers = <<>> /\ rounds = 0 /\ turn = <<>>
    /\ message = << MsgLoadFailed >>

\* The catalog failed to load, End Game brought the start screen up and
\* Start Game was pressed: the default player is there, but no round
C20_Witness ==
  /\ loadPc = "failed" /\ gameStatus = "IDLE" /\ ~showLeaderboard
  /\ players = << DefaultPlayer >> /\ timers = <<>>

\* C21: facts resolution never fails the round and always ends with a facts
\* record: when the facts fetch for the current round fails, returns a non-OK
\* response or a missing/empty payload, the round's facts become a record
\* holding the shape's own display name, and status, lives and scores are
\* unchanged.
C21_FactsAlwaysResolve ==
  [][ \A k \in FetchKinds :
        (~k.stale /\ \E outcome \in FactsOutcomes \ {"ok"} : FactsDone(k, outcome))
          => /\ countryDetails' # <<>>
             /\ countryDetails'[1].name = k.feature.name
             /\ UNCHANGED << gameStatus, lives >>
             /\ Scores(players') = Scores(players)
    ]_vars

Tolerance(n) ==
  CASE Len(n) <= 3 -> 0
    [] Len(n) > 3 /\ Len(n) <= 7 -> 1
    [] Len(n) > 7 /\ Len(n) <= 12 -> 2
    [] OTHER -> 3
Accepts(g, n) ==
  \/ g = n
  \/ Len(g) > 3 /\ Includes(n, g)
  \/ levenshteinDistance(n, g) <= Tolerance(n)

\* C23: the Match Judge accepts a trimmed, case-folded guess g against a
\* case-folded name n if and only if g = n, or g is longer than 3 characters
\* and a substring of n, or Levenshtein(n, g) <= t(n) with t(n) = 0, 1, 2, 3
\* for names of length <= 3, <= 7, <= 12 and longer; "Franse" is accepted for
\* "France", and "itly" in the first round of a one-player session on Italy
\* gives Success and 5 points.
C23_JudgeRule ==
  /\ [](call.fn = "checkMatch" /\ call.ret # <<>>
          => /\ call.ret[1] = Accepts(Trim(ToLowerCase(call.args[2])),
                                      ToLowerCase(call.args[1]))
             /\ call.args = << Str_France, <<"F","r","a","n","s","e">> >>
                  => call.ret[1])
  /\ [][ ( /\ gameStatus = "PLAYING" /\ Len(players) = 1
           /\ targetCountry = << WorldGeoJson[1] >> /\ countryDetails = <<>>
           /\ handleSubmitGuess(<<"I","t","l","y"," ">>) )
           => /\ gameStatus' = "SUCCESS"
              /\ players'[1].score = players[1].score + ScoreStep ]_vars
\* a guess three typos away from a sixteen-letter name has been accepted and
\* the round on Italy has been won
C23_Witness ==
  /\ call = [fn |-> "checkMatch",
             args |-> << Str_MarshallIslands, Mistyped(Str_MarshallIslands, 3) >>,
             ret |-> << TRUE >>]
  /\ gameStatus = "SUCCESS" /\ players[1].score = ScoreStep

\* C24 as stated: a guess of at most 3 characters is accepted only if it
\* equals the name after normalization.
C24_ShortGuessNeedsExact ==
  (call.fn = "checkMatch" /\ call.ret # <<>>
     /\ Len(Trim(ToLowerCase(call.args[2]))) <= 3 /\ call.ret[1])
    => Trim(ToLowerCase(call.args[2])) = ToLowerCase(call.args[1])

\* C24, amended: a guess of at most 3 characters is exempt from the substring
\* rule: it is accepted if and only if it equals the name after normalization
\* or is within the name's edit-distance tolerance, so "Fra" is rejected for
\* "France" while "cha" is accepted for "Chad".
C24_ShortGuessNoSubstring ==
  (call.fn = "checkMatch" /\ call.ret # <<>>
     /\ Len(Trim(ToLowerCase(call.args[2]))) <= 3)
    => LET g == Trim(ToLowerCase(call.args[2]))
           n == ToLowerCase(call.args[1])
       IN /\ call.ret[1] = (g = n \/ levenshteinDistance(n, g) <= Tolerance(n))
          /\ call.args = << Str_France, <<"F","r","a">> >> => ~call.ret[1]
          /\ call.args = << Str_Chad, <<"c","h","a">> >> => call.ret[1]
\* "Fra" has been judged against "France" and rejected
C24_Witness ==
  call = [fn |-> "checkMatch", args |-> << Str_France, <<"F","r","a">> >>,
          ret |-> << FALSE >>]

\* The zoom effect has returned the transform of a shape in an active round
Framed ==
  /\ call.fn = "transform" /\ call.ret # <<>>
  /\ call.args[1] /\ call.args[2] \in {"PLAYING", "SUCCESS", "FAILURE"}
boxDx == call.args[3][2][1] - call.args[3][1][1]
boxDy == call.args[3][2][2] - call.args[3][1][2]
\* max(dx / width, dy / height) as a pair numerator, denominator
Widest ==
  IF boxDx * call.args[5] >= boxDy * call.args[4]
    THEN << boxDx, call.args[4] >> ELSE << boxDy, call.args[5] >>

\* C25: for every box with dx >= 0, dy >= 0 and a positive canvas, the framing
\* scale equals clamp(0.85 / max(dx/width, dy/height), 1, 50), so it lies in
\* [1, 50]; a box spanning the canvas gives 1 and a point gives 50, never an
\* undefined value; with status Idle or Loading, or without a target, the
\* transform is the world overview (scale 1, translate 0, 0).
C25_FramingScale ==
  /\ Framed =>
       LET k == call.ret[1].k
           m == Widest
       IN /\ k.d > 0 /\ k.d <= k.n /\ k.n <= 50 * k.d
          /\ m[1] = 0 => k.n = 50 * k.d
          /\ m[1] > 0 /\ 85 * m[2] <= 100 * m[1] => k.n = k.d
          /\ m[1] > 0 /\ 85 * m[2] >= 50 * 100 * m[1] => k.n = 50 * k.d
          /\ ( m[1] > 0 /\ 85 * m[2] > 100 * m[1]
                 /\ 85 * m[2] < 50 * 100 * m[1] )
               => k.n * 100 * m[1] = 85 * m[2] * k.d
          /\ (boxDx = call.args[4] /\ boxDy = call.args[5]) => k.n = k.d
  /\ ( /\ call.fn = "transform" /\ call.ret # <<>>
       /\ ~call.args[1] \/ call.args[2] \in {"IDLE", "LOADING"} )
       => /\ call.ret[1].k.n = call.ret[1].k.d /\ call.ret[1].k.d > 0
          /\ call.ret[1].x.n = 0 /\ call.ret[1].x.d > 0
          /\ call.ret[1].y.n = 0 /\ call.ret[1].y.d > 0
\* a point-like shape has been framed at scale 50
C25_Witness ==
  /\ Framed /\ boxDx = 0 /\ boxDy = 0
  /\ call.ret[1].k.n = 50 * call.ret[1].k.d /\ call.ret[1].k.d > 0

\* C26: skip() in Playing with k lives remaining (1 <= k <= 3) sets the lives
\* to max(0, k - 1), subtracts 5 from the current player's score exactly once
\* and sets the status to Failure whatever k is; a skip() when the round is
\* no longer Playing changes nothing.
C26_SkipEndsRound ==
  [][ /\ (SkipStep /\ lives \in 1..InitialLives)
        => /\ lives' = Max(0, lives - 1)
           /\ gameStatus' = "FAILURE"
           /\ \E i \in 1..Len(players) :
                /\ i - 1 = currentPlayerIndex
                /\ players'[i].score = players[i].score - 5
                /\ \A j \in (1..Len(players')) \ {i} : players'[j] = players[j]
           /\ Len(players') = Len(players)
      /\ (handleSkip /\ gameStatus # "PLAYING") => UNCHANGED vars
    ]_vars

\* The least number of single-character insertions, deletions and
\* substitutions that turn a into b: the last edit is one of the three
RECURSIVE EditDistance(_, _)
EditDistance(a, b) ==
  IF a = <<>> THEN Len(b)
  ELSE IF b = <<>> THEN Len(a)
  ELSE Min(EditDistance(Tail(a), b) + 1,
           Min(EditDistance(a, Tail(b)) + 1,
               EditDistance(Tail(a), Tail(b))
                 + (IF Head(a) = Head(b) THEN 0 ELSE 1)))

\* C27: levenshteinDistance(a, b) is the minimum number of single-character
\* insertions, deletions and substitutions turning a into b: the distance
\* between "" and x is the length of x either way round, distance(x, x) = 0,
\* distance(a, b) = distance(b, a), and distance("kitten", "sitting") = 3.
C27_EditDistance ==
  (call.fn = "levenshteinDistance" /\ call.ret # <<>>)
    => LET a == call.args[1]
           b == call.args[2]
           dist == call.ret[1]
       IN /\ dist = EditDistance(a, b)
          /\ a = <<>> => dist = Len(b)
          /\ b = <<>> => dist = Len(a)
          /\ a = b => dist = 0
          /\ dist = levenshteinDistance(b, a)
          /\ (a = Str_kitten /\ b = Str_sitting) => dist = 3
\* the distance between "kitten" and "sitting" has been computed
C27_Witness ==
  call = [fn |-> "levenshteinDistance", args |-> << Str_kitten, Str_sitting >>,
          ret |-> << 3 >>]

\* C28: within one round the target is fixed and is a playable shape: once the
\* status is Playing the target changes only with the next startRound() or
\* endSession(), and it is always an element of the filtered catalog (not the
\* excluded polar landmass, not a shape with empty geometry), also when start
\* actions are issued more than once before the delayed selection fires.
C28_TargetFixedInRound ==
  /\ [](targetCountry # <<>>
          => /\ targetCountry[1].name # Str_Antarctica
             /\ targetCountry[1].coords > 0
             /\ \E i \in DOMAIN filteredFeatures(WorldGeoJson) :
                  filteredFeatures(WorldGeoJson)[i] = targetCountry[1])
  /\ [][ ( /\ gameStatus \in {"PLAYING", "SUCCESS", "FAILURE"}
           /\ targetCountry # <<>>
           /\ targetCountry' # targetCountry )
           => (startGameSession \/ NextRound \/ handleEndGame) ]_vars

====
